---- MODULE Spec2Model ----
(***************************************************************************)
(* Lead ownership, status transitions and audit trail of the HRM portal.   *)
(* One lead row (id 1) of the leads table, its lead_history rows and its   *)
(* notifications rows, worked on by concurrently running Express handlers  *)
(* (PUT /api/leads/:id, DELETE /api/leads/:id, POST /api/leads/:id/assign). *)
(* Every await of a handler that touches the store is one step; statements *)
(* inside db.transaction commit in one step (READ COMMITTED: the select of *)
(* assignLead is a step of its own, the writes become visible at commit).  *)
(***************************************************************************)
EXTENDS Integers, Sequences, FiniteSets, TLC

\* ------------------------------------------------------------------ bounds
NumSlots == 2        \* handler invocations that can be in flight together
MaxRequests == 2     \* requests started in one behaviour
MaxFailures == 1     \* store calls that throw in one behaviour
NumConns == 2        \* WebSocket connections opened in one behaviour
MaxPublishes == 1    \* broadcastUpdate calls in one behaviour
MaxSockets == 7      \* WebSocket objects the client hook creates in one behaviour

\* --------------------------------------------------------------- constants
NULL == "NULL"              \* SQL NULL / JS null
UNDEF == "undefined"        \* JS undefined: key absent from the body
NaN == "NaN"

Slots == 1..NumSlots

\* rows of the users table, in creation order
UserRows == <<"h1", "h2", "a1", "a2", "m1", "ad1">>
Users == {UserRows[i] : i \in 1..Len(UserRows)}

role(u) ==
    CASE u \in {"h1", "h2"} -> "hr"
      [] u \in {"a1", "a2"} -> "accounts"
      [] u = "m1" -> "manager"
      [] OTHER -> "admin"

\* the part of the status enum of baseUpdateSchema the workflow distinguishes
Statuses == {"new", "scheduled", "pending", "completed"}

\* request bodies of PUT /api/leads/:id: one value per key, UNDEF when absent
BodyStatus == Statuses \cup {UNDEF}
BodyNotes == {UNDEF, "", "call back"}
BodyAmount == {UNDEF, "", "100.00", "abc"}
BodyName == {UNDEF, "Bob"}

Defined(b) == Cardinality({k \in DOMAIN b : b[k] # UNDEF})

Bodies ==
    {b \in [status : BodyStatus, notes : BodyNotes,
            registrationAmount : BodyAmount, name : BodyName] :
        \/ Defined(b) = 1
        \/ Defined(b) = 2 /\ b.status = "completed" /\ b.notes = "call back"}

\* the bodies sent by requests that run concurrently
RaceBodies ==
    {b \in Bodies : /\ Defined(b) = 1
                    /\ b.status \in {UNDEF, "new", "completed"}
                    /\ b.notes \in {UNDEF, "call back"}
                    /\ b.registrationAmount = UNDEF
                    /\ b.name = UNDEF}

VARIABLES
    lead,            \* the leads row with id 1
    history,         \* lead_history rows of the lead, in insertion order
    changedAt,       \* lead_history.changed_at of each of these rows
    notifications,   \* notifications rows with relatedLeadId = 1
    isActive,        \* users.is_active
    req,             \* one record per handler invocation slot
    started,         \* number of requests started so far
    failures,        \* number of store failures so far
    sockets,         \* the WebSocket objects the server has accepted
    authenticatedClients,   \* the Map ws -> client info, in insertion order
    inbox,           \* what each connection has been sent
    publishes,       \* number of broadcastUpdate calls so far
    lastPublish,     \* the arguments and outcome of the latest call
    phase,           \* the component of the hook: "init", "mounted", "unmounted"
    wsRef,           \* wsRef.current: 0 (null) or a socket of the hook
    clientSockets,   \* readyState of the WebSocket objects the hook created
    connectionStatus,
    reconnectTimeoutRef,   \* reconnectTimeoutRef.current: 0 (undefined) or a timer
    timers,          \* the timers window.setTimeout has returned
    reconnectAttempts      \* reconnectAttempts.current

storeVars ==
    <<lead, history, changedAt, notifications, isActive, req, started,
      failures>>

hubVars == <<sockets, authenticatedClients, inbox, publishes, lastPublish>>

clientVars ==
    <<phase, wsRef, clientSockets, connectionStatus, reconnectTimeoutRef,
      timers, reconnectAttempts>>

vars == <<storeVars, hubVars, clientVars>>

\* ------------------------------------------------------------ store helpers
NoLead ==
    [exists |-> FALSE, currentOwnerId |-> NULL, status |-> NULL, notes |-> NULL,
     registrationAmount |-> NULL, name |-> NULL]

\* a row written by the bulk import: unassigned, status 'new'
ImportedLead ==
    [exists |-> TRUE, currentOwnerId |-> NULL, status |-> "new", notes |-> NULL,
     registrationAmount |-> NULL, name |-> "Ann"]

\* a row written by POST /api/leads: owned by the HR user who created it
CreatedLead(u) == [ImportedLead EXCEPT !.currentOwnerId = u]

NoChanges == {}

HistoryRow(from, to, prev, new, reason, action, changed, by) ==
    [fromUserId |-> from, toUserId |-> to, previousStatus |-> prev,
     newStatus |-> new, changeReason |-> reason,
     changeData |-> [action |-> action, changedFields |-> changed],
     changedByUserId |-> by]

CreatedRow(u) ==
    HistoryRow(NULL, u, NULL, "new", "Lead created", "created", NoChanges, u)

getUsersByRole_anyone(r, active) ==
    SelectSeq(UserRows, LAMBDA u : role(u) = r)

\* getUsersByRole: active users of the role, in table order
getUsersByRole(r, active) ==
    SelectSeq(UserRows, LAMBDA u : role(u) = r /\ active[u])

\* parseFloat(s).toString() of the route, NaN when s is no number
parseAmount(s) ==
    CASE s = "100.00" -> "100"
      [] OTHER -> NaN

\* what a decimal(10,2) column returns for a stored value
storeDecimal(v) == IF v = "100" THEN "100.00" ELSE v

\* updateLead's sanitizing of empty strings
sanitize(v) == IF v = "" THEN NULL ELSE v

NoBody ==
    [status |-> UNDEF, notes |-> UNDEF, registrationAmount |-> UNDEF,
     name |-> UNDEF]

IdleReq ==
    [pc |-> "idle", kind |-> NULL, actor |-> NULL, body |-> NoBody,
     toUserId |-> NULL, currentLead |-> NoLead, updates |-> NoBody,
     leadReturned |-> FALSE, assignedUser |-> NULL, previousOwnerId |-> NULL,
     txStatus |-> NULL, result |-> 0, h0 |-> 0, added |-> <<>>,
     wrote |-> FALSE, sent |-> <<>>, txNow |-> 0]

Conns == 1..NumConns

\* a WebSocket the server has not seen yet
NoSocket == [readyState |-> "NONE", session |-> NULL, passwordUser |-> NULL,
             handled |-> FALSE, listening |-> FALSE]

\* options of broadcastUpdate: an array that is absent or empty is {}
NoFilter == [roles |-> {}, excludeRoles |-> {}, userIds |-> {}]

NoPublish == [type |-> NULL, options |-> NoFilter, failed |-> {}, threw |-> FALSE,
              result |-> 0]

Init ==
    /\ sockets = [c \in Conns |-> NoSocket]
    /\ authenticatedClients = <<>>
    /\ inbox = [c \in Conns |-> <<>>]
    /\ publishes = 0
    /\ lastPublish = NoPublish
    /\ \E u \in {NULL, "h1"} :
         /\ lead = IF u = NULL THEN ImportedLead ELSE CreatedLead(u)
         /\ history = IF u = NULL THEN <<>> ELSE <<CreatedRow(u)>>
         /\ changedAt = IF u = NULL THEN <<>> ELSE <<1>>
    /\ notifications = <<>>
    /\ \E off \in {{"a1", "m1"}, {"a1", "a2", "ad1"}, {"a1", "m1", "ad1"}} :
         isActive = [u \in Users |-> u \notin off]
    /\ req = [s \in Slots |-> IdleReq]
    /\ started = 0
    /\ failures = 0
    /\ phase = "init"
    /\ wsRef = 0
    /\ clientSockets = <<>>
    /\ connectionStatus = "disconnected"
    /\ reconnectTimeoutRef = 0
    /\ timers = <<>>
    /\ reconnectAttempts = 0

\* changed_at defaults to now(). The clock only moves forward and only the
\* order of its readings matters: a reading is numbered one past the largest
\* reading a row or an open transaction still holds. Inside a transaction
\* now() is the time the transaction started.
Readings ==
    {changedAt[i] : i \in DOMAIN changedAt} \cup {req[s].txNow : s \in Slots}

now == 1 + CHOOSE m \in Readings \cup {0} : \A x \in Readings : x <= m

\* --------------------------------------------------------- request plumbing
\* a request may start in the lowest idle slot once every response has been
\* delivered; slots are interchangeable
\* isAuthenticated lets a request through when the session's user exists and
\* is active
isAuthenticated(u) == isActive[u]

CanBegin(r) ==
    /\ started < MaxRequests
    /\ req[r].pc = "idle"
    /\ \A s \in Slots : req[s].pc # "done"
    /\ \A s \in Slots : s < r => req[s].pc # "idle"

\* a rejection (4xx) is delivered before the server does anything else
Quiet == \A s \in Slots : ~(req[s].pc = "done" /\ req[s].result \in 400..499)

\* the invocation r is about to run the step p
At(r, p) == req[r].pc = p /\ Quiet

Respond(r, code) == [r EXCEPT !.pc = "done", !.result = code]

\* the handler calls broadcastUpdate(type, ...)
publish(q, type) == [q EXCEPT !.sent = Append(@, type)]

\* the response has been delivered and the invocation is gone
Retire(r) ==
    /\ req[r].pc = "done"
    /\ req' = [req EXCEPT ![r] = IdleReq]
    /\ UNCHANGED <<lead, history, changedAt, notifications, isActive, started, failures>>
    /\ UNCHANGED <<hubVars, clientVars>>

createLeadHistory_overwrite(h, row) ==
    IF h = <<>> THEN <<row>> ELSE [h EXCEPT ![Len(h)] = row]

\* db.insert(leadHistory).values(row)
createLeadHistory(h, row) == Append(h, row)

\* --------------------------------------------------- PUT /api/leads/:id
Elevated(u) == role(u) \in {"manager", "admin"}

\* safeParse with the schema of the actor's role: zod objects strip the keys
\* the schema does not declare
validate(u, b) == IF Elevated(u) THEN b ELSE [b EXCEPT !.name = UNDEF]

\* the route's parsing of registrationAmount
parseBody(v) ==
    [v EXCEPT !.registrationAmount =
        IF @ = UNDEF THEN UNDEF
        ELSE IF @ = "" THEN NULL
        ELSE parseAmount(@)]

\* db.update(leads).set(sanitizedUpdates) of storage.updateLead
applyUpdates(l, u) ==
    [l EXCEPT
        !.status = IF u.status # UNDEF THEN u.status ELSE @,
        !.notes = IF u.notes # UNDEF THEN sanitize(u.notes) ELSE @,
        !.registrationAmount =
            IF u.registrationAmount # UNDEF
            THEN storeDecimal(sanitize(u.registrationAmount)) ELSE @,
        !.name = IF u.name # UNDEF THEN u.name ELSE @]

nonStatusFields == {"name", "notes"}

\* the changedFields loop of the route: {field, oldValue, newValue}
changedFields(u, cur) ==
    {<<f, cur[f], u[f]>> : f \in {g \in nonStatusFields :
                                    u[g] # UNDEF /\ u[g] # cur[g]}}

statusChanges_anySubmitted(u, cur) == u.status # UNDEF

statusChanges(u, cur) == u.status # UNDEF /\ u.status # cur.status

\* entry of the handler up to and including the access check
\* the request is sent by a user u with one of the given bodies
UpdateBegin(r, bodies) ==
    /\ CanBegin(r)
    /\ started' = started + 1
    /\ \E u \in Users, b \in bodies :
         /\ isAuthenticated(u)
         /\ LET v == validate(u, b)
                upd == parseBody(v)
                base == [IdleReq EXCEPT !.kind = "update", !.actor = u,
                                        !.body = b, !.h0 = Len(history)]
            IN req' = [req EXCEPT ![r] =
                 IF upd.registrationAmount = NaN THEN Respond(base, 400)
                 ELSE IF ~lead.exists THEN Respond(base, 404)
                 ELSE IF role(u) \in {"accounts", "hr"}
                         /\ lead.currentOwnerId # u
                      THEN Respond([base EXCEPT !.currentLead = lead], 403)
                 ELSE [base EXCEPT !.pc = "upd_write", !.updates = upd,
                                   !.currentLead = lead]]
    /\ UNCHANGED <<lead, history, changedAt, notifications, isActive, failures>>
    /\ UNCHANGED <<hubVars, clientVars>>

\* const lead = await storage.updateLead(leadId, updates)
UpdateWrite(r) ==
    /\ At(r, "upd_write")
    /\ lead' = IF lead.exists THEN applyUpdates(lead, req[r].updates) ELSE lead
    /\ LET q == req[r]
       IN req' = [req EXCEPT ![r] =
            [q EXCEPT !.leadReturned = lead.exists,
                      !.wrote = lead.exists,
                      !.pc = IF statusChanges(q.updates, q.currentLead)
                                THEN "upd_hist"
                             ELSE IF changedFields(q.updates, q.currentLead) # {}
                                THEN "upd_fieldhist"
                             ELSE "upd_final"]]
    /\ UNCHANGED <<history, changedAt, notifications, isActive, started, failures>>
    /\ UNCHANGED <<hubVars, clientVars>>

handoffRole_manager(u) ==
    CASE role(u) = "hr" -> "accounts"
      [] role(u) = "accounts" -> "manager"
      [] OTHER -> NULL

\* the pool a completed lead is forwarded to, by the role of the caller
handoffRole(u) ==
    CASE role(u) = "hr" -> "accounts"
      [] role(u) = "accounts" -> "admin"
      [] OTHER -> NULL

\* the status the hand-off writes
handoffStatus(u) == IF role(u) = "hr" THEN "pending" ELSE "completed"

handoffType(u) == IF role(u) = "hr" THEN "HR_to_Accounts" ELSE "Accounts_to_Admin"

handoffReason(u) ==
    IF role(u) = "hr" THEN "Lead completed by HR and forwarded to Accounts team"
    ELSE "Lead completed by Accounts and forwarded to Admin"

handoffCandidates_inactiveToo(u, status, active) ==
    IF status = "completed" /\ handoffRole(u) # NULL
    THEN SelectSeq(UserRows, LAMBDA w : role(w) = handoffRole(u))
    ELSE <<>>

handoffCandidates_anyStatus(u, status, active) ==
    IF handoffRole(u) # NULL
    THEN getUsersByRole(handoffRole(u), active)
    ELSE <<>>

\* if (updates.status === 'completed') { if hr ... else if accounts ... }
\* with the users the role query returns
handoffCandidates(u, status, active) ==
    IF status = "completed" /\ handoffRole(u) # NULL
    THEN getUsersByRole(handoffRole(u), active)
    ELSE <<>>

UpdateHistory_publishFirst(r) ==
    /\ At(r, "upd_hist")
    /\ LET q == req[r]
           row == HistoryRow(q.currentLead.currentOwnerId,
                             q.currentLead.currentOwnerId, q.currentLead.status,
                             q.updates.status, "Status updated", "updates",
                             NoChanges, q.actor)
           cands == handoffCandidates(q.actor, q.updates.status, isActive)
       IN IF ~lead.exists
          THEN /\ req' = [req EXCEPT ![r] = Respond(q, 500)]
               /\ UNCHANGED <<history, changedAt>>
          ELSE /\ history' = createLeadHistory(history, row)
               /\ changedAt' = Append(changedAt, now)
               /\ req' = [req EXCEPT ![r] =
                    [publish(q, "lead_updated") EXCEPT
                        !.added = Append(@, row),
                        !.assignedUser =
                            IF Len(cands) > 0 THEN cands[1] ELSE NULL,
                        !.pc = IF Len(cands) > 0 THEN "upd_handoff"
                               ELSE "upd_final"]]
    /\ UNCHANGED <<lead, notifications, isActive, started, failures>>
    /\ UNCHANGED <<hubVars, clientVars>>

\* a foreign key to leads.id is violated when the lead row is gone
\* createLeadHistory for the status change, then the role query
UpdateHistory(r) ==
    /\ At(r, "upd_hist")
    /\ LET q == req[r]
           row == HistoryRow(q.currentLead.currentOwnerId,
                             q.currentLead.currentOwnerId, q.currentLead.status,
                             q.updates.status, "Status updated", "updates",
                             NoChanges, q.actor)
           cands == handoffCandidates(q.actor, q.updates.status, isActive)
       IN IF ~lead.exists
          THEN /\ req' = [req EXCEPT ![r] = Respond(q, 500)]
               /\ UNCHANGED <<history, changedAt>>
          ELSE /\ history' = createLeadHistory(history, row)
               /\ changedAt' = Append(changedAt, now)
               /\ req' = [req EXCEPT ![r] =
                    [q EXCEPT !.added = Append(@, row),
                              !.assignedUser =
                                  IF Len(cands) > 0 THEN cands[1] ELSE NULL,
                              !.pc = IF Len(cands) > 0 THEN "upd_handoff"
                                     ELSE "upd_final"]]
    /\ UNCHANGED <<lead, notifications, isActive, started, failures>>
    /\ UNCHANGED <<hubVars, clientVars>>

\* storage.updateLead(leadId, {currentOwnerId, status, isActive: true})
UpdateHandoff(r) ==
    /\ At(r, "upd_handoff")
    /\ lead' = IF lead.exists
               THEN [lead EXCEPT !.currentOwnerId = req[r].assignedUser,
                                 !.status = handoffStatus(req[r].actor)]
               ELSE lead
    /\ req' = [req EXCEPT ![r] = [@ EXCEPT !.pc = "upd_handoffhist"]]
    /\ UNCHANGED <<history, changedAt, notifications, isActive, started, failures>>
    /\ UNCHANGED <<hubVars, clientVars>>

\* createLeadHistory for the hand-off
UpdateHandoffHistory(r) ==
    /\ At(r, "upd_handoffhist")
    /\ LET q == req[r]
           row == HistoryRow(q.currentLead.currentOwnerId,
                             q.assignedUser, "completed",
                             handoffStatus(q.actor), handoffReason(q.actor),
                             handoffType(q.actor), NoChanges, q.actor)
       IN IF ~lead.exists
          THEN /\ req' = [req EXCEPT ![r] = Respond(q, 500)]
               /\ UNCHANGED <<history, changedAt>>
          ELSE /\ history' = createLeadHistory(history, row)
               /\ changedAt' = Append(changedAt, now)
               /\ req' = [req EXCEPT ![r] =
                    [q EXCEPT !.added = Append(@, row), !.pc = "upd_notify"]]
    /\ UNCHANGED <<lead, notifications, isActive, started, failures>>
    /\ UNCHANGED <<hubVars, clientVars>>

UpdateNotify_again(r) ==
    /\ At(r, "upd_notify")
    /\ IF ~req[r].leadReturned \/ ~lead.exists
       THEN /\ req' = [req EXCEPT ![r] = Respond(@, 500)]
            /\ UNCHANGED notifications
       ELSE /\ notifications' = Append(notifications, req[r].assignedUser)
            /\ req' = [req EXCEPT ![r] =
                    [@ EXCEPT !.pc = IF Len(req[r].added) < 3
                                     THEN "upd_handoff" ELSE "upd_final"]]
    /\ UNCHANGED <<lead, history, changedAt, isActive, started, failures>>
    /\ UNCHANGED <<hubVars, clientVars>>

\* storage.createNotification({userId, ..., message: `Lead ${lead.name} ...`})
UpdateNotify(r) ==
    /\ At(r, "upd_notify")
    /\ IF ~req[r].leadReturned \/ ~lead.exists
       THEN /\ req' = [req EXCEPT ![r] = Respond(@, 500)]
            /\ UNCHANGED notifications
       ELSE /\ notifications' = Append(notifications, req[r].assignedUser)
            /\ req' = [req EXCEPT ![r] = [@ EXCEPT !.pc = "upd_final"]]
    /\ UNCHANGED <<lead, history, changedAt, isActive, started, failures>>
    /\ UNCHANGED <<hubVars, clientVars>>

\* createLeadHistory for non-status field changes
UpdateFieldHistory(r) ==
    /\ At(r, "upd_fieldhist")
    /\ LET q == req[r]
           row == HistoryRow(q.currentLead.currentOwnerId,
                             q.currentLead.currentOwnerId, q.currentLead.status,
                             q.currentLead.status, "Lead information updated",
                             "changedFields",
                             changedFields(q.updates, q.currentLead), q.actor)
       IN IF ~lead.exists
          THEN /\ req' = [req EXCEPT ![r] = Respond(q, 500)]
               /\ UNCHANGED <<history, changedAt>>
          ELSE /\ history' = createLeadHistory(history, row)
               /\ changedAt' = Append(changedAt, now)
               /\ req' = [req EXCEPT ![r] =
                    [q EXCEPT !.added = Append(@, row), !.pc = "upd_final"]]
    /\ UNCHANGED <<lead, notifications, isActive, started, failures>>
    /\ UNCHANGED <<hubVars, clientVars>>

\* const finalLead = await storage.getLead(leadId); broadcast; res.json
UpdateFinal(r) ==
    /\ At(r, "upd_final")
    /\ req' = [req EXCEPT ![r] =
            Respond(IF lead.exists THEN publish(@, "lead_updated") ELSE @, 200)]
    /\ UNCHANGED <<lead, history, changedAt, notifications, isActive, started, failures>>
    /\ UNCHANGED <<hubVars, clientVars>>

\* ------------------------------------------------ DELETE /api/leads/:id
\* entry of the handler up to and including the access check
DeleteBegin(r) ==
    /\ CanBegin(r)
    /\ started' = started + 1
    /\ \E u \in Users :
         /\ isAuthenticated(u)
         /\ LET base == [IdleReq EXCEPT !.kind = "delete", !.actor = u,
                                        !.h0 = Len(history)]
                seen == [base EXCEPT !.currentLead = lead]
            IN req' = [req EXCEPT ![r] =
                 IF ~lead.exists THEN Respond(base, 404)
                 ELSE IF role(u) = "hr" /\ lead.currentOwnerId # u
                      THEN Respond(seen, 403)
                 ELSE IF role(u) = "accounts" THEN Respond(seen, 403)
                 ELSE IF role(u) = "hr" /\ lead.currentOwnerId = u
                      THEN [seen EXCEPT !.pc = "rel_tx"]
                 ELSE [seen EXCEPT !.pc = "del_tx"]]
    /\ UNCHANGED <<lead, history, changedAt, notifications, isActive, failures>>
    /\ UNCHANGED <<hubVars, clientVars>>

unassignLead_keepStatus(l) == [l EXCEPT !.currentOwnerId = NULL]

\* the update of unassignLeadWithHistory
unassignLead(l) == [l EXCEPT !.currentOwnerId = NULL, !.status = "new"]

\* storage.unassignLeadWithHistory: one transaction, then the response
ReleaseTx(r) ==
    /\ At(r, "rel_tx")
    /\ LET q == req[r]
           row == HistoryRow(q.currentLead.currentOwnerId, NULL,
                             q.currentLead.status, "new",
                             "Lead released by HR - returned to Lead Management",
                             "unassigned", NoChanges, q.actor)
       IN IF ~lead.exists
             THEN /\ req' = [req EXCEPT ![r] = Respond(q, 500)]
                  /\ UNCHANGED <<lead, history, changedAt>>
             ELSE /\ history' = createLeadHistory(history, row)
                  /\ changedAt' = Append(changedAt, now)
                  /\ lead' = unassignLead(lead)
                  /\ req' = [req EXCEPT ![r] =
                       Respond(publish([q EXCEPT !.added = Append(@, row),
                                                 !.wrote = TRUE],
                                       "lead_unassigned"), 200)]
    /\ UNCHANGED <<notifications, isActive, started, failures>>
    /\ UNCHANGED <<hubVars, clientVars>>

deleteHistory_priorOnly(h) == SubSeq(h, Len(h), Len(h))

\* tx.delete(leadHistory).where(eq(leadHistory.leadId, leadId))
deleteHistory(h) == <<>>

DestroyTx_insertLast(r) ==
    /\ At(r, "del_tx")
    /\ LET q == req[r]
           row == HistoryRow(q.currentLead.currentOwnerId, NULL,
                             q.currentLead.status, q.currentLead.status,
                             "Lead deleted", "deleted", NoChanges, q.actor)
       IN IF ~lead.exists \/ Len(notifications) > 0
             THEN /\ req' = [req EXCEPT ![r] = Respond(q, 500)]
                  /\ UNCHANGED <<lead, history, changedAt>>
             ELSE /\ history' = createLeadHistory(deleteHistory(history), row)
                  /\ changedAt' = Append(deleteHistory(changedAt), now)
                  /\ lead' = NoLead
                  /\ req' = [req EXCEPT ![r] =
                       Respond(publish([q EXCEPT !.added = Append(@, row),
                                                 !.wrote = TRUE],
                                       "lead_deleted"), 200)]
    /\ UNCHANGED <<notifications, isActive, started, failures>>
    /\ UNCHANGED <<hubVars, clientVars>>

\* storage.deleteLeadWithHistory: one transaction, then the response; the
\* delete of the lead row fails while a notifications row references it
DestroyTx(r) ==
    /\ At(r, "del_tx")
    /\ LET q == req[r]
           row == HistoryRow(q.currentLead.currentOwnerId, NULL,
                             q.currentLead.status, q.currentLead.status,
                             "Lead deleted", "deleted", NoChanges, q.actor)
       IN IF ~lead.exists \/ Len(notifications) > 0
             THEN /\ req' = [req EXCEPT ![r] = Respond(q, 500)]
                  /\ UNCHANGED <<lead, history, changedAt>>
             ELSE /\ history' = deleteHistory(createLeadHistory(history, row))
                  /\ changedAt' = deleteHistory(Append(changedAt, now))
                  /\ lead' = NoLead
                  /\ req' = [req EXCEPT ![r] =
                       Respond(publish([q EXCEPT !.added = Append(@, row),
                                                 !.wrote = TRUE],
                                       "lead_deleted"), 200)]
    /\ UNCHANGED <<notifications, isActive, started, failures>>
    /\ UNCHANGED <<hubVars, clientVars>>

\* ------------------------------------------- POST /api/leads/:id/assign
\* entry of the handler up to and including the role-based authorization
\* the body names a user (to) or leaves toUserId out
AssignBegin(r) ==
    /\ CanBegin(r)
    /\ started' = started + 1
    /\ \E u \in Users, to \in Users \cup {UNDEF} :
         /\ isAuthenticated(u)
         /\ LET targetUserId == IF to = UNDEF THEN u ELSE to
                base == [IdleReq EXCEPT !.kind = "assign", !.actor = u,
                                        !.toUserId = targetUserId,
                                        !.h0 = Len(history)]
                go == [base EXCEPT !.pc = "asg_read"]
            IN req' = [req EXCEPT ![r] =
                 IF role(u) = "hr"
                 THEN IF targetUserId # u THEN Respond(base, 403)
                      ELSE IF ~lead.exists THEN Respond(base, 404)
                      ELSE IF lead.currentOwnerId # NULL
                           THEN Respond([base EXCEPT !.currentLead = lead], 409)
                      ELSE [go EXCEPT !.currentLead = lead]
                 ELSE IF Elevated(u)
                 THEN IF role(targetUserId) # "hr" /\ targetUserId # u
                      THEN Respond(base, 400)
                      ELSE go
                 ELSE Respond(base, 403)]
    /\ UNCHANGED <<lead, history, changedAt, notifications, isActive, failures>>
    /\ UNCHANGED <<hubVars, clientVars>>

\* storage.assignLead: the select that opens the transaction
AssignTxRead(r) ==
    /\ At(r, "asg_read")
    /\ req' = [req EXCEPT ![r] =
            IF ~lead.exists THEN Respond(@, 404)
            ELSE [@ EXCEPT !.previousOwnerId = lead.currentOwnerId,
                           !.txStatus = lead.status,
                           !.txNow = now,
                           !.pc = "asg_write"]]
    /\ UNCHANGED <<lead, history, changedAt, notifications, isActive, started, failures>>
    /\ UNCHANGED <<hubVars, clientVars>>

isHRSelfAssign_selfOnly(toUserId, changedByUserId, previousOwnerId) ==
    toUserId = changedByUserId

isHRSelfAssign(toUserId, changedByUserId, previousOwnerId) ==
    toUserId = changedByUserId /\ previousOwnerId = NULL

\* storage.assignLead: the update, the history insert and the commit
AssignTxWrite(r) ==
    /\ At(r, "asg_write")
    /\ LET q == [req[r] EXCEPT !.txNow = 0]
           row == HistoryRow(q.previousOwnerId, q.toUserId,
                             q.txStatus, q.txStatus, "Lead assigned",
                             "assignment", NoChanges, q.actor)
           commit ==
               /\ lead' = [lead EXCEPT !.currentOwnerId = q.toUserId]
               /\ history' = createLeadHistory(history, row)
               /\ changedAt' = Append(changedAt, req[r].txNow)
               /\ req' = [req EXCEPT ![r] =
                    Respond(publish([q EXCEPT !.added = Append(@, row),
                                              !.wrote = TRUE],
                                    "lead_assigned"), 200)]
       IN IF isHRSelfAssign(q.toUserId, q.actor, q.previousOwnerId)
          THEN IF lead.exists /\ lead.currentOwnerId = NULL
               THEN commit
               ELSE /\ req' = [req EXCEPT ![r] = Respond(q, 409)]
                    /\ UNCHANGED <<lead, history, changedAt>>
          ELSE IF lead.exists
               THEN commit
               ELSE /\ req' = [req EXCEPT ![r] = Respond(q, 500)]
                         /\ UNCHANGED <<lead, history, changedAt>>
    /\ UNCHANGED <<notifications, isActive, started, failures>>
    /\ UNCHANGED <<hubVars, clientVars>>

\* ------------------------------------------------------------ store failure
StoreSteps ==
    {"upd_write", "upd_hist", "upd_handoff", "upd_handoffhist", "upd_notify",
     "upd_fieldhist", "upd_final", "rel_tx", "del_tx", "asg_read", "asg_write"}

\* the store call the handler is about to make throws (connection lost,
\* statement error): a transaction rolls back, the catch block answers 500
StoreFailure(r) ==
    /\ Quiet
    /\ req[r].pc \in StoreSteps
    /\ failures < MaxFailures
    /\ failures' = failures + 1
    /\ req' = [req EXCEPT ![r] = Respond([@ EXCEPT !.txNow = 0], 500)]
    /\ UNCHANGED <<lead, history, changedAt, notifications, isActive, started>>
    /\ UNCHANGED <<hubVars, clientVars>>

\* ----------------------------------------------------------- specifications
Next ==
    \E r \in Slots :
        \/ UpdateBegin(r, RaceBodies)
        \/ DeleteBegin(r)
        \/ AssignBegin(r)
        \/ UpdateWrite(r)
        \/ UpdateHistory(r)
        \/ UpdateHandoff(r)
        \/ UpdateHandoffHistory(r)
        \/ UpdateNotify(r)
        \/ UpdateFieldHistory(r)
        \/ UpdateFinal(r)
        \/ ReleaseTx(r)
        \/ DestroyTx(r)
        \/ AssignTxRead(r)
        \/ AssignTxWrite(r)
        \/ StoreFailure(r)
        \/ Retire(r)

Spec == Init /\ [][Next]_vars

\* the same handlers called one after the other: a request starts only when
\* no other invocation is in flight
AllIdle == \A s \in Slots : req[s].pc = "idle"

SeqUpdateBegin(r) == AllIdle /\ UpdateBegin(r, Bodies)

SeqDeleteBegin(r) == AllIdle /\ DeleteBegin(r)

SeqAssignBegin(r) == AllIdle /\ AssignBegin(r)

SeqNext ==
    \E r \in Slots :
        \/ SeqUpdateBegin(r)
        \/ SeqDeleteBegin(r)
        \/ SeqAssignBegin(r)
        \/ UpdateWrite(r)
        \/ UpdateHistory(r)
        \/ UpdateHandoff(r)
        \/ UpdateHandoffHistory(r)
        \/ UpdateNotify(r)
        \/ UpdateFieldHistory(r)
        \/ UpdateFinal(r)
        \/ ReleaseTx(r)
        \/ DestroyTx(r)
        \/ AssignTxRead(r)
        \/ AssignTxWrite(r)
        \/ StoreFailure(r)
        \/ Retire(r)

SeqSpec == Init /\ [][SeqNext]_vars

\* ------------------------------------------------- WebSocket server (/ws)
\* the users whose sessions open sockets
HubUsers == {"h1", "m1"}

AllRoles == {"hr", "accounts", "admin", "manager"}

\* type and options of the broadcastUpdate calls
Publications ==
    {[type |-> "lead_updated", options |-> [NoFilter EXCEPT !.roles = AllRoles]],
     [type |-> "user_created",
      options |-> [NoFilter EXCEPT !.roles = {"manager", "admin"}]],
     [type |-> "lead_assigned", options |-> [NoFilter EXCEPT !.userIds = {"h1"}]],
     [type |-> "notice", options |-> [NoFilter EXCEPT !.excludeRoles = {"hr"}]],
     [type |-> "notice", options |-> NoFilter]}

\* the users signed in through POST /api/auth/login who open sockets
PasswordUsers == {"h1"}

\* what the session store holds for the cookie of a connection:
\* sessionData.passport.user.claims.sub and sessionData.user.id. A session has
\* the one, the other (password login) or, without a valid cookie, neither
Sessions ==
    {[sub |-> u, id |-> NULL] : u \in HubUsers \cup {NULL}}
        \cup {[sub |-> NULL, id |-> u] : u \in PasswordUsers}

\* wss.on('connection'): the socket is open, with the session cookie of a user
\* or with none; the validation of the session is awaited
Connect(c) ==
    /\ sockets[c].readyState = "NONE"
    /\ \A d \in Conns : d < c => sockets[d].readyState # "NONE"
    /\ \E sessionData \in Sessions :
         sockets' = [sockets EXCEPT ![c] =
                        [@ EXCEPT !.readyState = "OPEN",
                                  !.session = sessionData.sub,
                                  !.passwordUser = sessionData.id]]
    /\ UNCHANGED <<authenticatedClients, inbox, publishes, lastPublish>>
    /\ UNCHANGED <<storeVars, clientVars>>

Register_replay(c) ==
    /\ sockets[c].readyState # "NONE"
    /\ ~sockets[c].handled
    /\ sockets[c].session # NULL
    /\ sockets' = [sockets EXCEPT ![c] =
            [@ EXCEPT !.handled = TRUE, !.listening = TRUE]]
    /\ authenticatedClients' =
            Append(authenticatedClients,
                   [ws |-> c, userId |-> sockets[c].session,
                    userRole |-> role(sockets[c].session)])
    /\ inbox' = IF publishes > 0
                THEN [inbox EXCEPT ![c] =
                        Append(@, [id |-> publishes, type |-> lastPublish.type])]
                ELSE inbox
    /\ UNCHANGED <<publishes, lastPublish>>
    /\ UNCHANGED <<storeVars, clientVars>>

\* the rest of the connection handler: close(4001) without a user, else
\* authenticatedClients.set(ws, info) and ws.on('close', ...)
Register(c) ==
    /\ sockets[c].readyState # "NONE"
    /\ ~sockets[c].handled
    /\ LET u == sockets[c].session
       IN IF u = NULL
          THEN /\ sockets' = [sockets EXCEPT ![c] =
                     [@ EXCEPT !.handled = TRUE,
                               !.readyState = IF @ = "OPEN" THEN "CLOSING" ELSE @]]
               /\ UNCHANGED authenticatedClients
          ELSE /\ sockets' = [sockets EXCEPT ![c] =
                     [@ EXCEPT !.handled = TRUE, !.listening = TRUE]]
               /\ authenticatedClients' =
                     Append(authenticatedClients,
                            [ws |-> c, userId |-> u, userRole |-> role(u)])
    /\ UNCHANGED <<inbox, publishes, lastPublish>>
    /\ UNCHANGED <<storeVars, clientVars>>

\* the peer or the server starts to close the socket
BeginClose(c) ==
    /\ sockets[c].readyState = "OPEN"
    /\ sockets' = [sockets EXCEPT ![c] = [@ EXCEPT !.readyState = "CLOSING"]]
    /\ UNCHANGED <<authenticatedClients, inbox, publishes, lastPublish>>
    /\ UNCHANGED <<storeVars, clientVars>>

\* the socket is closed and 'close' is emitted: the listener, when it is
\* attached by then, runs authenticatedClients.delete(ws)
Closed(c) ==
    /\ sockets[c].readyState = "CLOSING"
    /\ sockets' = [sockets EXCEPT ![c] = [@ EXCEPT !.readyState = "CLOSED"]]
    /\ authenticatedClients' =
          IF sockets[c].listening
          THEN SelectSeq(authenticatedClients, LAMBDA e : e.ws # c)
          ELSE authenticatedClients
    /\ UNCHANGED <<inbox, publishes, lastPublish>>
    /\ UNCHANGED <<storeVars, clientVars>>

Matches_rolesOnly(clientInfo, options) ==
    options.roles # {} => clientInfo.userRole \in options.roles

\* the filter clauses of broadcastUpdate
Matches(clientInfo, options) ==
    /\ options.roles # {} => clientInfo.userRole \in options.roles
    /\ options.excludeRoles # {} => clientInfo.userRole \notin options.excludeRoles
    /\ options.userIds # {} => clientInfo.userId \in options.userIds

\* the callback of authenticatedClients.forEach for one client; failing are
\* the sockets whose send throws
sendTo_uncaught(acc, e, msg, options, failing) ==
    IF sockets[e.ws].readyState # "OPEN" THEN acc
    ELSE IF e.userId = NULL /\ e.userRole = NULL THEN acc
    ELSE IF ~Matches(e, options) THEN acc
    ELSE IF e.ws \in failing
         THEN [acc EXCEPT !.failed = @ \cup {e.ws}, !.threw = TRUE]
    ELSE [acc EXCEPT !.box[e.ws] = Append(@, msg)]

sendTo(acc, e, msg, options, failing) ==
    IF sockets[e.ws].readyState # "OPEN" THEN acc
    ELSE IF e.userId = NULL /\ e.userRole = NULL THEN acc
    ELSE IF ~Matches(e, options) THEN acc
    ELSE IF e.ws \in failing
         THEN [acc EXCEPT !.failed = @ \cup {e.ws}]
    ELSE [acc EXCEPT !.box[e.ws] = Append(@, msg)]

\* authenticatedClients.forEach(...): an exception that leaves the callback
\* ends the loop
RECURSIVE forEachClient(_, _, _, _, _)
forEachClient(clients, acc, msg, options, failing) ==
    IF clients = <<>> \/ acc.threw THEN acc
    ELSE forEachClient(Tail(clients),
                       sendTo(acc, Head(clients), msg, options, failing),
                       msg, options, failing)

broadcastUpdate(type, options, failing) ==
    forEachClient(authenticatedClients,
                  [box |-> inbox, failed |-> {}, threw |-> FALSE],
                  [id |-> publishes + 1, type |-> type], options, failing)

\* the registered sockets a send can be tried on
OpenClients ==
    {authenticatedClients[i].ws : i \in
        {j \in 1..Len(authenticatedClients) :
            sockets[authenticatedClients[j].ws].readyState = "OPEN"}}

\* a handler that has committed calls broadcastUpdate and then answers: 200,
\* or 500 from its catch block when the call throws
Publish ==
    /\ publishes < MaxPublishes
    /\ publishes' = publishes + 1
    /\ \E p \in Publications, failing \in SUBSET OpenClients :
         LET out == broadcastUpdate(p.type, p.options, failing)
         IN /\ inbox' = out.box
            /\ lastPublish' = [type |-> p.type, options |-> p.options,
                               failed |-> out.failed, threw |-> out.threw,
                               result |-> IF out.threw THEN 500 ELSE 200]
    /\ UNCHANGED <<sockets, authenticatedClients>>
    /\ UNCHANGED <<storeVars, clientVars>>

HubNext ==
    \/ Publish
    \/ \E c \in Conns :
        \/ Connect(c)
        \/ Register(c)
        \/ BeginClose(c)
        \/ Closed(c)

\* the server with one imported lead and no request in flight
HubInit == Init /\ lead = ImportedLead /\ isActive["a2"] /\ isActive["ad1"]

HubSpec == HubInit /\ [][HubNext]_vars

\* ------------------------------------------ client hook useWebSocket
maxReconnectAttempts == 5

\* Math.pow(b, e)
RECURSIVE pow(_, _)
pow(b, e) == IF e = 0 THEN 1 ELSE b * pow(b, e - 1)

SocketIds == 1..Len(clientSockets)

TimerIds == 1..Len(timers)

\* connect(): setConnectionStatus('connecting'), new WebSocket(wsUrl),
\* wsRef.current = ws
connect ==
    /\ Len(clientSockets) < MaxSockets
    /\ connectionStatus' = "connecting"
    /\ clientSockets' = Append(clientSockets, "CONNECTING")
    /\ wsRef' = Len(clientSockets) + 1

\* useEffect(() => { connect(); ... }, []) when the component mounts
Mount ==
    /\ phase = "init"
    /\ phase' = "mounted"
    /\ connect
    /\ UNCHANGED <<reconnectTimeoutRef, timers, reconnectAttempts>>
    /\ UNCHANGED <<storeVars, hubVars>>

\* the connection is established: readyState OPEN and ws.onopen in one task
Opened(s) ==
    /\ s \in SocketIds
    /\ clientSockets[s] = "CONNECTING"
    /\ clientSockets' = [clientSockets EXCEPT ![s] = "OPEN"]
    /\ connectionStatus' = "connected"
    /\ reconnectAttempts' = 0
    /\ UNCHANGED <<phase, wsRef, reconnectTimeoutRef, timers>>
    /\ UNCHANGED <<storeVars, hubVars>>

onclose_atMost(attempts) == attempts <= maxReconnectAttempts

\* if (reconnectAttempts.current < maxReconnectAttempts)
onclose(attempts) == attempts < maxReconnectAttempts

\* the connection fails, the server closes it, or a close() completes:
\* readyState CLOSED, then ws.onerror when it failed (setConnectionStatus(
\* 'error')) and ws.onclose, all in one task
SocketClosed(s) ==
    /\ s \in SocketIds
    /\ clientSockets[s] \in {"CONNECTING", "OPEN", "CLOSING"}
    /\ clientSockets' = [clientSockets EXCEPT ![s] = "CLOSED"]
    /\ connectionStatus' = "disconnected"
    /\ wsRef' = 0
    /\ IF onclose(reconnectAttempts)
       THEN /\ reconnectAttempts' = reconnectAttempts + 1
            /\ timers' = Append(timers,
                  [delay |-> pow(2, reconnectAttempts + 1) * 1000,
                   state |-> "pending"])
            /\ reconnectTimeoutRef' = Len(timers) + 1
       ELSE UNCHANGED <<reconnectAttempts, timers, reconnectTimeoutRef>>
    /\ UNCHANGED phase
    /\ UNCHANGED <<storeVars, hubVars>>

\* the callback of window.setTimeout(() => { connect(); }, delay)
TimerFires(t) ==
    /\ t \in TimerIds
    /\ timers[t].state = "pending"
    /\ timers' = [timers EXCEPT ![t].state = "fired"]
    /\ connect
    /\ UNCHANGED <<phase, reconnectTimeoutRef, reconnectAttempts>>
    /\ UNCHANGED <<storeVars, hubVars>>

\* the cleanup of the effect when the component unmounts: disconnect()
Disconnect ==
    /\ phase = "mounted"
    /\ phase' = "unmounted"
    /\ timers' = IF reconnectTimeoutRef # 0
                    /\ timers[reconnectTimeoutRef].state = "pending"
                 THEN [timers EXCEPT ![reconnectTimeoutRef].state = "cleared"]
                 ELSE timers
    /\ clientSockets' = IF wsRef # 0 /\ clientSockets[wsRef] = "OPEN"
                        THEN [clientSockets EXCEPT ![wsRef] = "CLOSING"]
                        ELSE clientSockets
    /\ wsRef' = 0
    /\ connectionStatus' = "disconnected"
    /\ UNCHANGED <<reconnectTimeoutRef, reconnectAttempts>>
    /\ UNCHANGED <<storeVars, hubVars>>

ClientNext ==
    \/ Mount
    \/ Disconnect
    \/ \E s \in 1..MaxSockets :
        \/ Opened(s)
        \/ SocketClosed(s)
        \/ TimerFires(s)

\* the page with the server at rest
ClientInit == HubInit

ClientSpec == ClientInit /\ [][ClientNext]_vars

\* ------------------------------------------------------------------ claims
Done(q) == q.pc = "done"

\* a self-assignment of an HR user whose pre-check saw the lead unassigned
IsClaim(q) ==
    /\ q.kind = "assign"
    /\ role(q.actor) = "hr"
    /\ q.toUserId = q.actor
    /\ q.currentLead.exists
    /\ q.currentLead.currentOwnerId = NULL

\* rows the lead's history has gained since the request q began
Gained(q) == SubSeq(history, q.h0 + 1, Len(history))

ClaimRows(rows) ==
    SelectSeq(rows, LAMBDA e : e.changeData.action = "assignment"
                               /\ e.fromUserId = NULL)

\* C1: of the claim calls of different HR users that overlap on one unassigned
\* lead and were all answered without a store failure, exactly one is answered 200 and owns the
\* lead, every other one is answered 409, and the history has gained exactly
\* one assignment row with fromUserId = NULL
C1_ExactlyOneClaimWins ==
    LET calls == {r \in Slots : IsClaim(req[r]) /\ Done(req[r])}
        winners == {r \in calls : req[r].result = 200}
    IN (/\ Cardinality(calls) >= 2
        /\ \A r \in calls : req[r].result # 500
        /\ \A r1, r2 \in calls : r1 # r2 => req[r1].actor # req[r2].actor) =>
          /\ Cardinality(winners) = 1
          /\ \A r \in calls \ winners : req[r].result = 409
          /\ \A r \in winners : lead.currentOwnerId = req[r].actor
          /\ \A r \in calls :
               /\ Len(ClaimRows(Gained(req[r]))) = 1
               /\ Len(Gained(req[r])) = 1

\* the row PUT /api/leads/:id writes for its status change is in the history
HasStatusRow(q) ==
    \E i \in (q.h0 + 1)..Len(history) :
        /\ history[i].previousStatus = q.currentLead.status
        /\ history[i].newStatus = q.updates.status
        /\ history[i].changedByUserId = q.actor

\* C2: an update call that has ended and whose status write is in the store
\* has its status-change row in the history, and a call answered 500 has
\* written nothing
C2_UpdateAtomicWithAudit ==
    \A r \in Slots :
        LET q == req[r]
        IN (q.kind = "update" /\ Done(q)) =>
              /\ (q.wrote /\ statusChanges(q.updates, q.currentLead))
                    => HasStatusRow(q)
              /\ q.result = 500 => (~q.wrote /\ q.added = <<>>)

\* the status change of the call triggers a hand-off
HandoffDue(q) ==
    /\ q.kind = "update"
    /\ statusChanges(q.updates, q.currentLead)
    /\ Len(handoffCandidates(q.actor, q.updates.status, isActive)) > 0

\* C3: in no state has a call that triggers a hand-off written the lead
\* without both of its history rows being there, and while both rows are not
\* there the lead is not seen 'completed' under the owner the call found
C3_HandoffAtomic ==
    \A r \in Slots :
        LET q == req[r]
        IN (HandoffDue(q) /\ q.wrote) =>
              /\ Len(q.added) = 2
              /\ ~(lead.status = "completed"
                   /\ lead.currentOwnerId = q.currentLead.currentOwnerId)

\* the call has been answered 200
Ok(q) == Done(q) /\ q.result = 200

\* the owner the call found on the lead
OldOwner(q) == q.currentLead.currentOwnerId

ActiveOf(rl) == {u \in Users : role(u) = rl /\ isActive[u]}

\* the active user of the role that comes first in the users table
FirstActive(rl) ==
    UserRows[CHOOSE i \in 1..Len(UserRows) :
                /\ UserRows[i] \in ActiveOf(rl)
                /\ \A j \in 1..(i - 1) : UserRows[j] \notin ActiveOf(rl)]

\* an update call of the HR owner that sets 'completed' on a lead that is not
\* 'completed' while an accounts user is active
HRCompletes(q) ==
    /\ q.kind = "update"
    /\ role(q.actor) = "hr"
    /\ OldOwner(q) = q.actor
    /\ q.currentLead.status # "completed"
    /\ q.body.status = "completed"
    /\ ActiveOf("accounts") # {}

\* C4: after an answered update call in which the HR owner completes a lead
\* that is not 'completed', with an active accounts user, the owner is the
\* first active accounts user, the status is 'pending', and the history has
\* gained exactly two rows: previous status -> 'completed' from and to the
\* old owner, then 'completed' -> 'pending' from the old owner to the
\* accounts user with the hand-off type HR_to_Accounts
C4_HRCompleteHandsOff ==
    \A r \in Slots :
        LET q == req[r]
            g == Gained(q)
        IN (HRCompletes(q) /\ Ok(q)) =>
              /\ lead.currentOwnerId = FirstActive("accounts")
              /\ lead.status = "pending"
              /\ Len(g) = 2
              /\ g[1].previousStatus = q.currentLead.status
              /\ g[1].newStatus = "completed"
              /\ g[1].fromUserId = OldOwner(q)
              /\ g[1].toUserId = OldOwner(q)
              /\ g[2].previousStatus = "completed"
              /\ g[2].newStatus = "pending"
              /\ g[2].fromUserId = OldOwner(q)
              /\ g[2].toUserId = FirstActive("accounts")
              /\ g[2].changeData.action = "HR_to_Accounts"

C4_Witness ==
    \E r \in Slots :
        /\ HRCompletes(req[r])
        /\ Ok(req[r])
        /\ ~isActive["a1"]
        /\ lead.currentOwnerId = "a2"

\* an update call of the accounts owner that sets 'completed' on a 'pending'
\* lead while an admin user is active
AccountsCompletes(q) ==
    /\ q.kind = "update"
    /\ role(q.actor) = "accounts"
    /\ OldOwner(q) = q.actor
    /\ q.currentLead.status = "pending"
    /\ q.body.status = "completed"
    /\ ActiveOf("admin") # {}

\* C5: after an answered update call in which the accounts owner completes a
\* 'pending' lead, with an active admin user, the owner is the first active
\* admin user, the status is 'completed', and the history has gained the row
\* 'pending' -> 'completed' followed by one hand-off row
\* 'completed' -> 'completed' whose toUserId is that admin user
C5_AccountsCompleteHandsOff ==
    \A r \in Slots :
        LET q == req[r]
            g == Gained(q)
        IN (AccountsCompletes(q) /\ Ok(q)) =>
              /\ lead.currentOwnerId = FirstActive("admin")
              /\ lead.status = "completed"
              /\ Len(g) = 2
              /\ g[1].previousStatus = "pending"
              /\ g[1].newStatus = "completed"
              /\ g[2].previousStatus = "completed"
              /\ g[2].newStatus = "completed"
              /\ g[2].toUserId = FirstActive("admin")
              /\ g[2].changeData.action = "Accounts_to_Admin"

C5_Witness ==
    \E r \in Slots :
        /\ AccountsCompletes(req[r])
        /\ Ok(req[r])
        /\ lead.currentOwnerId = "ad1"
        /\ Len(history) = 5

\* the pool a completed lead goes to next, by the role of the worker
NextPool(u) ==
    IF role(u) = "hr" THEN "accounts"
    ELSE IF role(u) = "accounts" THEN "admin"
    ELSE NULL

\* the call completes the lead and a worker of the next pool is active
HandoffFires(q) ==
    /\ q.body.status = "completed"
    /\ NextPool(q.actor) # NULL
    /\ ActiveOf(NextPool(q.actor)) # {}

\* an update call that submits a status other than the stored one
ChangesStatus(q) ==
    /\ q.kind = "update"
    /\ q.body.status # UNDEF
    /\ q.body.status # q.currentLead.status

\* C6: after an answered update call that changes the status from s to s',
\* the history has gained one row with previousStatus = s, newStatus = s' and
\* fromUserId = toUserId = the owner before the call, then one more row if
\* and only if a hand-off fired, and no other row
C6_StatusChangeEntries ==
    \A r \in Slots :
        LET q == req[r]
            g == Gained(q)
        IN (ChangesStatus(q) /\ Ok(q)) =>
              /\ Len(g) = IF HandoffFires(q) THEN 2 ELSE 1
              /\ g[1].previousStatus = q.currentLead.status
              /\ g[1].newStatus = q.body.status
              /\ g[1].fromUserId = OldOwner(q)
              /\ g[1].toUserId = OldOwner(q)
              /\ HandoffFires(q) =>
                    g[2].changeData.action \in {"HR_to_Accounts",
                                                "Accounts_to_Admin"}

\* a status change with a second changed field and no hand-off
C6_Witness ==
    \E r \in Slots :
        /\ ChangesStatus(req[r])
        /\ Ok(req[r])
        /\ ~HandoffFires(req[r])
        /\ req[r].body.notes = "call back"
        /\ Len(Gained(req[r])) = 1

\* DELETE /api/leads/:id called by the HR user who owns the lead
IsRelease(q) ==
    /\ q.kind = "delete"
    /\ role(q.actor) = "hr"
    /\ OldOwner(q) = q.actor

\* C7: a release answered 200 leaves the lead in the store with no owner and
\* status 'new' and has added exactly one row (from the releasing owner to
\* null, previous status -> 'new'); a release that has not committed or that
\* failed has changed neither the lead nor the history
C7_ReleaseResetsAndLogs ==
    \A r \in Slots :
        LET q == req[r]
            g == Gained(q)
        IN IsRelease(q) =>
              IF Ok(q)
              THEN /\ lead.exists
                   /\ lead.currentOwnerId = NULL
                   /\ lead.status = "new"
                   /\ lead = [q.currentLead EXCEPT !.currentOwnerId = NULL,
                                                   !.status = "new"]
                   /\ Len(g) = 1
                   /\ g[1].fromUserId = q.actor
                   /\ g[1].toUserId = NULL
                   /\ g[1].previousStatus = q.currentLead.status
                   /\ g[1].newStatus = "new"
                   /\ g[1].changeData.action = "unassigned"
              ELSE /\ lead = q.currentLead
                   /\ g = <<>>

\* a committed release of a lead whose status was not 'new'
C7_Witness ==
    \E r \in Slots :
        /\ IsRelease(req[r])
        /\ Ok(req[r])
        /\ req[r].currentLead.status = "scheduled"
        /\ lead.status = "new"

\* the commit of deleteLeadWithHistory by the invocation r
DestroyCommit(r) ==
    /\ req[r].pc = "del_tx"
    /\ req'[r].result = 200
    /\ ~lead'.exists
    /\ Len(req'[r].added) = 1
    /\ req'[r].added[1].changeData.action = "deleted"

\* the history after the step starts with the whole history before it
HistoryKept ==
    /\ Len(history') >= Len(history)
    /\ SubSeq(history', 1, Len(history)) = history

\* C8: in every step of every interleaving of claims, reassignments, releases
\* and updates the rows written so far stay as they are and their number does
\* not decrease; the only step that removes rows is the commit of the destroy
\* transaction, which also writes the terminal row
C8_HistoryAppendOnly ==
    [][HistoryKept \/ \E r \in Slots : DestroyCommit(r)]_vars

\* a destroy has committed on a lead that had a row from a claim before
C8_Witness ==
    \E r \in Slots :
        /\ req[r].kind = "delete"
        /\ Ok(req[r])
        /\ req[r].h0 >= 1
        /\ history = <<>>
        /\ ~lead.exists
        /\ \E s \in Slots : req[s].kind = "assign" /\ req[s].wrote

\* the fields of the lead whose stored value the call has changed
StoredChanges(q) ==
    {f \in {"notes", "registrationAmount", "name"} : lead[f] # q.currentLead[f]}

\* an update call that leaves the status as it is
KeepsStatus(q) ==
    /\ q.kind = "update"
    /\ q.body.status \in {UNDEF, q.currentLead.status}

\* C9: after an answered update call that leaves the status unchanged and has
\* changed the stored value of at least one other field, the history has
\* gained exactly one row, with previousStatus = newStatus, whose changedFields
\* name every field whose stored value changed
C9_FieldChangeEntry ==
    \A r \in Slots :
        LET q == req[r]
            g == Gained(q)
        IN (KeepsStatus(q) /\ Ok(q) /\ StoredChanges(q) # {}) =>
              /\ Len(g) = 1
              /\ g[1].previousStatus = g[1].newStatus
              /\ {c[1] : c \in g[1].changeData.changedFields} = StoredChanges(q)

\* every field the call submits equals the stored value
IsNoOp(q) ==
    /\ q.kind = "update"
    /\ \A f \in DOMAIN q.body :
          q.body[f] = UNDEF \/ q.body[f] = q.currentLead[f]

\* C10: an answered update call whose submitted fields, status included, all
\* equal the stored values has added no row to the history
C10_NoOpNoEntry ==
    \A r \in Slots :
        (IsNoOp(req[r]) /\ Ok(req[r])) => Gained(req[r]) = <<>>

\* a no-op on the notes and a no-op on the status have been answered
C10_Witness ==
    \E r \in Slots :
        /\ IsNoOp(req[r])
        /\ Ok(req[r])
        /\ req[r].body.notes = "call back"
        /\ req[r].body.status = "completed"
        /\ history # <<>>

\* the step of the invocation r is a write of PUT /api/leads/:id to the lead
UpdateWrote(r) ==
    /\ req[r].kind = "update"
    /\ req[r].pc \in {"upd_write", "upd_handoff"}
    /\ req'[r].pc # req[r].pc
    /\ lead' # lead

\* C11: in every interleaving, a step in which an update call of a
\* non-elevated actor (hr or accounts) changes the lead is taken only while
\* that actor is the owner of the lead; a call rejected with 403 has written
\* nothing
C11_WriteOnlyWhileOwner ==
    [][\A r \in Slots :
          /\ (UpdateWrote(r) /\ ~Elevated(req[r].actor))
                => lead.currentOwnerId = req[r].actor
          /\ (req'[r].kind = "update" /\ req'[r].result = 403)
                => (lead' = lead /\ history' = history)]_vars

\* an update call of a non-elevated actor whose body holds a field of the
\* manager schema only
SubmitsRestricted(q) ==
    /\ q.kind = "update"
    /\ ~Elevated(q.actor)
    /\ q.body.name # UNDEF

\* C12: an update call in which the non-elevated owner of the lead submits a
\* field outside the reduced field set and that meets no store failure is
\* answered 400 and has changed neither the lead nor its history
C12_RestrictedFieldRejected ==
    \A r \in Slots :
        LET q == req[r]
        IN (SubmitsRestricted(q) /\ Done(q) /\ q.result # 500
            /\ q.currentLead.currentOwnerId = q.actor) =>
              /\ q.result = 400
              /\ ~q.wrote
              /\ Gained(q) = <<>>

\* POST /api/leads/:id/assign called by a manager or admin on a lead that
\* exists, answered without a store failure
IsReassign(q) ==
    /\ q.kind = "assign"
    /\ Elevated(q.actor)
    /\ Done(q)
    /\ q.result # 500

\* what a reassignment answered 200 leaves: the target owns the lead, the
\* status is as before and one row from the previous owner to the target was
\* added
ReassignDone(q) ==
    /\ q.result = 200
    /\ lead.currentOwnerId = q.toUserId
    /\ lead.status = q.txStatus
    /\ Len(Gained(q)) = 1
    /\ Gained(q)[1].fromUserId = q.previousOwnerId
    /\ Gained(q)[1].toUserId = q.toUserId
    /\ Gained(q)[1].previousStatus = q.txStatus
    /\ Gained(q)[1].newStatus = q.txStatus
    /\ Gained(q)[1].changeData.action = "assignment"

\* an assign call of an hr or accounts user that names another user
AssignsToOther(q) ==
    /\ q.kind = "assign"
    /\ ~Elevated(q.actor)
    /\ q.toUserId # q.actor
    /\ Done(q)

DestroyEnds(r) ==
    /\ req[r].pc = "del_tx"
    /\ req'[r].pc = "done"

PublishStep == publishes' = publishes + 1

\* the socket c is a key of authenticatedClients
Registered(c) ==
    \E i \in 1..Len(authenticatedClients) : authenticatedClients[i].ws = c

\* the subscribers a filter selects, by the kind of the filter
Selected(c, options) ==
    LET u == sockets[c].session
    IN IF options.roles # {} THEN role(u) \in options.roles
       ELSE IF options.userIds # {} THEN u \in options.userIds
       ELSE IF options.excludeRoles # {} THEN role(u) \notin options.excludeRoles
       ELSE TRUE

\* the message of the call is appended to what c has been sent
Delivered(c) ==
    inbox'[c] =
        Append(inbox[c], [id |-> publishes', type |-> lastPublish'.type])

\* C15: a call of broadcastUpdate sends its message to exactly the sockets that
\* are registered and open at the call, whose send does not throw and that the
\* filter selects (role in the role set, user in the user-id set, role not in
\* the excluded set, or every registered socket without a filter); every other
\* socket is sent nothing
C15_PublishToMatching ==
    [][PublishStep =>
         \A c \in Conns :
            IF /\ Registered(c)
               /\ sockets[c].readyState = "OPEN"
               /\ Selected(c, lastPublish'.options)
               /\ c \notin lastPublish'.failed
            THEN Delivered(c)
            ELSE inbox'[c] = inbox[c]]_vars

\* a publish to the manager and admin roles has reached the manager's socket
\* and not the socket of the HR user registered beside it
C15_Witness ==
    /\ lastPublish.options.roles = {"manager", "admin"}
    /\ \E c, d \in Conns :
         /\ Registered(c) /\ Registered(d)
         /\ sockets[c].session = "m1" /\ inbox[c] # <<>>
         /\ sockets[d].session = "h1" /\ sockets[d].readyState = "OPEN"
         /\ inbox[d] = <<>>

\* C16: when the send to a subscriber throws during a call of broadcastUpdate,
\* every other open registered socket the filter selects still gets the
\* message, nothing in the store changes, and the calling handler answers 200
C16_SendFailureIsolated ==
    [][(PublishStep /\ lastPublish'.failed # {}) =>
         /\ \A c \in Conns :
               (/\ Registered(c)
                /\ sockets[c].readyState = "OPEN"
                /\ Selected(c, lastPublish'.options)
                /\ c \notin lastPublish'.failed) => Delivered(c)
         /\ lead' = lead
         /\ history' = history
         /\ notifications' = notifications
         /\ ~lastPublish'.threw
         /\ lastPublish'.result = 200]_vars

\* the send to the socket registered first threw and the socket registered
\* after it got the message
C16_Witness ==
    /\ Len(authenticatedClients) = 2
    /\ authenticatedClients[1].ws \in lastPublish.failed
    /\ authenticatedClients[2].ws \notin lastPublish.failed
    /\ inbox[authenticatedClients[1].ws] = <<>>
    /\ inbox[authenticatedClients[2].ws] # <<>>
    /\ lastPublish.result = 200

\* C18: messages reach a socket only in the step of the broadcastUpdate call
\* they belong to, one message at most per socket and call and only at
\* sockets registered at that moment; no other step, a later registration
\* included, adds to what a socket has been sent
C18_NoReplay ==
    [][IF PublishStep
       THEN \A c \in Conns :
               \/ inbox'[c] = inbox[c]
               \/ Delivered(c) /\ Registered(c)
       ELSE inbox' = inbox]_vars

\* a socket that the filter of the last call selects is registered and open
\* and has been sent nothing: it registered after the call
C18_Witness ==
    /\ publishes >= 1
    /\ \E c, d \in Conns :
         /\ Registered(c)
         /\ sockets[c].readyState = "OPEN"
         /\ Selected(c, lastPublish.options)
         /\ c \notin lastPublish.failed
         /\ inbox[c] = <<>>
         /\ inbox[d] # <<>>

\* C17: in every state of every interleaving, a call that has published an
\* event has made all its store calls and is answered 200, it has published
\* one event, and a call answered with a failure (400, 403, 404, 409, 500) has
\* published nothing
C17_PublishAfterCommit ==
    \A r \in Slots :
        LET q == req[r]
        IN /\ q.sent # <<>> => (Ok(q) /\ Len(q.sent) = 1)
           /\ (Done(q) /\ q.result # 200) => q.sent = <<>>

\* an update with a hand-off has published after its four writes
C17_Witness ==
    \E r \in Slots :
        /\ req[r].kind = "update"
        /\ Ok(req[r])
        /\ req[r].wrote
        /\ Len(req[r].added) = 2
        /\ req[r].sent = <<"lead_updated">>

\* getLeadHistory: ORDER BY changed_at DESC. Row i can be returned at or before
\* row j when its key is not smaller
getLeadHistory(i, j) == changedAt[i] >= changedAt[j]

\* C19: the order history is returned in is strict and agrees with the order
\* the entries were written in: an entry written later is never returned
\* after, or interchangeably with, an entry written earlier
C19_HistoryOrderIsWriteOrder ==
    \A i, j \in DOMAIN changedAt : i < j => ~getLeadHistory(i, j)

\* no handler is running and no store call has failed
Settled == AllIdle /\ failures = 0

\* entry j continues entry i
Chains(i, j) ==
    /\ history[j].previousStatus = history[i].newStatus
    /\ history[j].fromUserId = history[i].toUserId

\* C20: once the calls on the lead have finished, any two consecutive entries
\* chain (the later one starts from the status and the owner the earlier one
\* ended with) and the newest entry ends with the lead's status and owner
C20_TrailReflectsMutations ==
    (Settled /\ lead.exists /\ C19_HistoryOrderIsWriteOrder) =>
        /\ \A i \in 1..(Len(history) - 1) : Chains(i, i + 1)
        /\ Len(history) > 0 =>
             /\ history[Len(history)].newStatus = lead.status
             /\ history[Len(history)].toUserId = lead.currentOwnerId

\* the sockets that are keys of authenticatedClients
RegistryKeys ==
    {authenticatedClients[i].ws : i \in 1..Len(authenticatedClients)}

\* C21: the registry holds only connections that are still there: once a
\* socket is closed and its connection handler has run to its end (nothing
\* more happens for that socket), the socket is not a key of the registry
C21_NoEntryOutlivesConnection ==
    \A c \in Conns :
        (sockets[c].readyState = "CLOSED" /\ sockets[c].handled)
            => c \notin RegistryKeys

\* the connection handler of socket c runs to its end in this step
HandlerEnds(c) == ~sockets[c].handled /\ sockets'[c].handled

\* C22: when the connection handler ends for the socket of a user who signed
\* in through the password login, the socket is registered with the user's id
\* and role and the handler has not closed it
C22_PasswordUserSubscribed ==
    [][\A c \in Conns :
          (HandlerEnds(c) /\ sockets[c].passwordUser # NULL) =>
              /\ \E i \in 1..Len(authenticatedClients') :
                    authenticatedClients'[i] =
                        [ws |-> c, userId |-> sockets[c].passwordUser,
                         userRole |-> role(sockets[c].passwordUser)]
              /\ sockets'[c].readyState = sockets[c].readyState]_vars

\* the rows of a hand-off among the rows a call has added
HandoffRows(q) ==
    SelectSeq(Gained(q), LAMBDA e : e.changeData.action \in
                                        {"HR_to_Accounts", "Accounts_to_Admin"})

\* the owner the call found is a worker of a trigger pool, the call sets
\* 'completed' and a worker of the pool that comes next is active
OwnerPoolCompletes(q) ==
    /\ OldOwner(q) # NULL
    /\ NextPool(OldOwner(q)) # NULL
    /\ q.body.status = "completed"
    /\ ActiveOf(NextPool(OldOwner(q))) # {}

\* C23: an answered update call that changes the status has handed the lead
\* off exactly when the owner it found belongs to a trigger pool and the new
\* status is 'completed', whoever submitted the change
C23_HandoffByOwnerPool ==
    \A r \in Slots :
        LET q == req[r]
        IN (ChangesStatus(q) /\ Ok(q)) =>
              (Len(HandoffRows(q)) > 0 <=> OwnerPoolCompletes(q))

\* C24: an update call adds at most one hand-off entry, and when it has
\* answered after a hand-off the lead has the owner and the status that this
\* one hand-off gave it ('pending' with an accounts user after an HR owner,
\* 'completed' with an admin user after an accounts owner): no second hand-off
\* follows in the call
C24_OneHandoffPerCall ==
    \A r \in Slots :
        LET q == req[r]
            h == HandoffRows(q)
        IN q.kind = "update" =>
              /\ Len(h) <= 1
              /\ Len(Gained(q)) <= 2
              /\ (Ok(q) /\ Len(h) = 1) =>
                    /\ lead.currentOwnerId = h[1].toUserId
                    /\ lead.status = h[1].newStatus
                    /\ h[1].fromUserId = OldOwner(q)
                    /\ role(h[1].toUserId) = NextPool(OldOwner(q))
                    /\ Len(notifications) > 0
                    /\ notifications[Len(notifications)] = h[1].toUserId

\* the accounts owner has completed a lead that an HR hand-off had brought:
\* the lead is 'completed' with an admin user, the status that would trigger
\* a hand-off again
C24_Witness ==
    \E r \in Slots :
        /\ req[r].kind = "update"
        /\ Ok(req[r])
        /\ Len(HandoffRows(req[r])) = 1
        /\ role(OldOwner(req[r])) = "accounts"
        /\ lead.status = "completed"
        /\ role(lead.currentOwnerId) = "admin"
        /\ failures = 0

\* an update call in which the owner, a worker of a trigger pool, sets
\* 'completed' on a lead that is not 'completed' while no worker of the pool
\* that comes next is active
NoTargetCompletes(q) ==
    /\ q.kind = "update"
    /\ NextPool(q.actor) # NULL
    /\ OldOwner(q) = q.actor
    /\ q.currentLead.status # "completed"
    /\ q.body.status = "completed"
    /\ ActiveOf(NextPool(q.actor)) = {}

\* C25: no step of such a call creates a notification, and when the call is
\* answered it is answered 200 unless the store failed, the lead is
\* 'completed' with the owner it had, and the history has gained exactly the
\* status-change entry
C25_NoTargetNoHandoff ==
    [][\A r \in Slots :
          LET q == req'[r]
          IN (NoTargetCompletes(q) /\ req'[r] # req[r]) =>
                /\ notifications' = notifications
                /\ Done(q) => q.result \in {200, 500}
                /\ (Done(q) /\ failures' = 0) => q.result = 200
                /\ Ok(q) =>
                      /\ lead'.currentOwnerId = OldOwner(q)
                      /\ lead'.status = "completed"
                      /\ Len(history') = q.h0 + 1
                      /\ history'[Len(history')] =
                            HistoryRow(OldOwner(q), OldOwner(q),
                                       q.currentLead.status, "completed",
                                       "Status updated", "updates", NoChanges,
                                       q.actor)]_vars

\* the accounts owner has completed a lead while no admin user is active
C25_Witness ==
    \E r \in Slots :
        /\ NoTargetCompletes(req[r])
        /\ Ok(req[r])
        /\ role(req[r].actor) = "accounts"
        /\ lead.currentOwnerId = req[r].actor
        /\ lead.status = "completed"
        /\ failures = 0

\* an update call of the HR owner that sets 'completed' and found the lead
\* its own and not 'completed', while an accounts user is active
OwnerCompletes(q) ==
    /\ HRCompletes(q)
    /\ Ok(q)

\* the status-change entries to 'completed' and the HR hand-off entries among
\* the rows from position n + 1 on
StatusRowsSince(n) ==
    SelectSeq(SubSeq(history, n + 1, Len(history)),
              LAMBDA e : e.changeData.action = "updates"
                         /\ e.newStatus = "completed")

HandoffRowsSince(n) ==
    SelectSeq(SubSeq(history, n + 1, Len(history)),
              LAMBDA e : e.changeData.action = "HR_to_Accounts")

\* C26: when two update calls of the same HR owner that both set 'completed'
\* on the lead have both been answered 200, the history has gained one
\* status-change entry to 'completed' and one hand-off entry, and one
\* hand-off notification exists
C26_ConcurrentCompleteOnce ==
    \A r, s \in Slots :
        (/\ r # s
         /\ OwnerCompletes(req[r])
         /\ OwnerCompletes(req[s])
         /\ req[r].actor = req[s].actor
         /\ req[r].h0 <= req[s].h0) =>
            /\ Len(StatusRowsSince(req[r].h0)) = 1
            /\ Len(HandoffRowsSince(req[r].h0)) = 1
            /\ Len(notifications) = 1

\* DELETE /api/leads/:id called by a manager or an admin
IsDestroy(q) == q.kind = "delete" /\ Elevated(q.actor)

\* GET /api/leads/:id/history: 404 without the lead, else the rows
historyRoute == IF ~lead.exists THEN 404 ELSE history

C28_DestroySucceeds ==
    \A r \in Slots :
        LET q == req[r]
        IN (IsDestroy(q) /\ Done(q) /\ q.currentLead.exists /\ failures = 0) =>
              /\ q.result = 200
              /\ ~lead.exists

\* C29: once disconnect() has run for the unmount, no step creates a
\* WebSocket or schedules a reconnect
C29_NoReconnectAfterDisconnect ==
    [][phase = "unmounted" =>
          /\ Len(clientSockets') = Len(clientSockets)
          /\ Len(timers') = Len(timers)]_vars

\* no socket of the hook is connecting, open or closing
NoLiveSocket == \A s \in SocketIds : clientSockets[s] = "CLOSED"

NoPendingTimer == \A t \in TimerIds : timers[t].state # "pending"

\* socket s is closed in this step
Closes(s) == clientSockets[s] # "CLOSED" /\ clientSockets'[s] = "CLOSED"

\* C30: the reconnect counter never exceeds 5; the close of a socket while
\* the counter is k - 1 < 5 raises it to k and schedules one reconnect after
\* 2^k seconds, and no other step schedules one; an open resets the counter
\* to 0; a close at counter 5 schedules nothing, and from then on, with no
\* socket and no timer left, no socket is created and the status stays
\* 'disconnected'
C30_ReconnectBounded ==
    [][/\ reconnectAttempts' <= maxReconnectAttempts
       /\ \A s \in SocketIds :
             Closes(s) =>
                IF reconnectAttempts < 5
                THEN /\ reconnectAttempts' = reconnectAttempts + 1
                     /\ timers' = Append(timers,
                           [delay |-> pow(2, reconnectAttempts') * 1000,
                            state |-> "pending"])
                     /\ timers'[Len(timers')].delay \in
                           {2000, 4000, 8000, 16000, 32000}
                ELSE /\ reconnectAttempts' = 5
                     /\ timers' = timers
                     /\ connectionStatus' = "disconnected"
       /\ (\A s \in SocketIds : ~Closes(s)) => Len(timers') = Len(timers)
       /\ \A s \in SocketIds :
             (clientSockets[s] # "OPEN" /\ clientSockets'[s] = "OPEN") =>
                 reconnectAttempts' = 0
       /\ (reconnectAttempts = 5 /\ NoLiveSocket /\ NoPendingTimer) =>
             /\ connectionStatus = "disconnected"
             /\ connectionStatus' = "disconnected"
             /\ clientSockets' = clientSockets]_vars

\* the first connection and five reconnects have failed one after the other:
\* six sockets are closed, the fifth timer has fired, the counter is 5 and
\* the mounted hook shows 'disconnected' with room for another socket
C30_Witness ==
    /\ phase = "mounted"
    /\ reconnectAttempts = 5
    /\ Len(clientSockets) = 6
    /\ Len(clientSockets) < MaxSockets
    /\ NoLiveSocket
    /\ Len(timers) = 5
    /\ timers[5].delay = 32000
    /\ NoPendingTimer
    /\ connectionStatus = "disconnected"

====
